---- MODULE Spec2Model ----
(***************************************************************************)
(* Adaptive retrieval-and-reasoning engine:                                *)
(*   src/frontend/src/retrieval/enhanced_agentic_retrieval.py              *)
(*     QueryAnalyzer, StrategySelector, EnhancedAgenticRetrieval           *)
(*   src/src/retrieval/enhanced_reasoning_stream.py                        *)
(*     ConversationMemory, ReasoningEngine, EnhancedReasoningStream        *)
(*                                                                         *)
(* Numbers.  Scores, distances and edge weights are integers in hundredths *)
(* (0.85 is 85).  complexity_score is an integer in 600ths (0.3 is 180,    *)
(* 0.7 is 420): 600 is the common denominator of /200, /10, /5 and /3.     *)
(* A confidence is the exact fraction [num, den].                          *)
(* Text is a sequence of one-character strings.                            *)
(***************************************************************************)
EXTENDS Integers, Sequences, FiniteSets, TLC

VARIABLES
    chroma_client,          \* EnhancedAgenticRetrieval.chroma_client: "None" | "ok" | "raises" |
                            \*   "ignores_limit" (answers with more than n_results) | "hangs"
    neo4j_driver,           \* EnhancedAgenticRetrieval.neo4j_driver: "None" | "ok" | "raises" | "hangs"
    llm_client,             \* "None" | "chat" | "generate" | "other" | "raises"
    vecStore,               \* the vector index: records [content, distance], nearest first
    graphStore,             \* the graph store: rows [content, weight] a traversal query matches
    graphNodes,             \* Entity nodes the store matches for a mentioned entity name
    max_messages,           \* ConversationMemory.max_messages
    conversations,          \* ConversationMemory.conversations: id -> buffer; absent ids are not in DOMAIN
    conversation_metadata,  \* ConversationMemory.conversation_metadata: id -> [message_count]
    tasks,                  \* the calls in flight: task id -> record (process_query, stream_response)
    clock,                  \* id -> messages ever created for it (their serial numbers stand for uuid4)
    history,                \* id -> the messages added since the id was created (observer)
    call                    \* the last direct call of a public operation and what it returned

vars == <<chroma_client, neo4j_driver, llm_client, vecStore, graphStore, graphNodes,
          max_messages, conversations, conversation_metadata, tasks, clock, history, call>>

envVars == <<chroma_client, neo4j_driver, llm_client, vecStore, graphStore, graphNodes>>
memVars == <<max_messages, conversations, conversation_metadata, clock, history>>

(***************************************************************************)
(* Text: str.lower, str.split, str.strip, substring test, str.isupper      *)
(***************************************************************************)
UpperChars == <<"A","B","C","D","E","F","G","H","I","J","K","L","M",
                "N","O","P","Q","R","S","T","U","V","W","X","Y","Z">>
LowerChars == <<"a","b","c","d","e","f","g","h","i","j","k","l","m",
                "n","o","p","q","r","s","t","u","v","w","x","y","z">>

IsUpper(c) == \E i \in DOMAIN UpperChars : UpperChars[i] = c
IsSpace(c) == c = " "

LowerChar(c) ==
    IF IsUpper(c) THEN LowerChars[CHOOSE i \in DOMAIN UpperChars : UpperChars[i] = c] ELSE c

\* str.lower()
Lower(s) == [i \in 1..Len(s) |-> LowerChar(s[i])]

\* kw in s
Contains(s, kw) ==
    \E i \in 1..(Len(s) - Len(kw) + 1) : SubSeq(s, i, i + Len(kw) - 1) = kw

\* str.strip()
Strip(s) ==
    IF \A i \in 1..Len(s) : IsSpace(s[i]) THEN <<>>
    ELSE LET first == CHOOSE i \in 1..Len(s) :
                        ~IsSpace(s[i]) /\ \A j \in 1..(i-1) : IsSpace(s[j])
             last == CHOOSE i \in 1..Len(s) :
                        ~IsSpace(s[i]) /\ \A j \in (i+1)..Len(s) : IsSpace(s[j])
         IN SubSeq(s, first, last)

\* str.split(): the maximal runs of non-space characters, in order
RECURSIVE SplitFrom(_, _, _, _)
SplitFrom(s, i, cur, acc) ==
    IF i > Len(s) THEN (IF cur = <<>> THEN acc ELSE Append(acc, cur))
    ELSE IF IsSpace(s[i])
         THEN SplitFrom(s, i + 1, <<>>, IF cur = <<>> THEN acc ELSE Append(acc, cur))
         ELSE SplitFrom(s, i + 1, Append(cur, s[i]), acc)

Split(s) == SplitFrom(s, 1, <<>>, <<>>)

Min(a, b) == IF a <= b THEN a ELSE b

RECURSIVE SumSeq(_)
SumSeq(s) == IF s = <<>> THEN 0 ELSE Head(s) + SumSeq(Tail(s))

(***************************************************************************)
(* QueryAnalyzer                                                           *)
(***************************************************************************)
entity_keywords == {<<"w","h","o">>, <<"w","h","a","t">>, <<"w","h","e","r","e">>,
                    <<"w","h","e","n">>, <<"w","h","i","c","h">>}
relationship_keywords == {<<"h","o","w">>, <<"w","h","y">>,
                          <<"r","e","l","a","t","i","o","n","s","h","i","p">>,
                          <<"c","o","n","n","e","c","t","e","d">>,
                          <<"r","e","l","a","t","e","d">>}
filter_keywords == {<<"f","i","l","t","e","r">>, <<"w","h","e","r","e">>,
                    <<"h","a","v","i","n","g">>, <<"w","i","t","h">>,
                    <<"w","i","t","h","o","u","t">>}
logical_ops == {<<"a","n","d">>, <<"o","r">>, <<"n","o","t">>, <<"b","u","t">>,
                <<"e","x","c","e","p","t">>}
question_words == {<<"w","h","o">>, <<"w","h","a","t">>, <<"w","h","e","r","e">>,
                   <<"w","h","e","n">>, <<"w","h","y">>, <<"h","o","w">>}

Intents == {"entity_lookup", "relationship_exploration", "filtered_search", "general_search"}

_determine_intent(query_lower) ==
    IF \E kw \in entity_keywords : Contains(query_lower, kw) THEN "entity_lookup"
    ELSE IF \E kw \in relationship_keywords : Contains(query_lower, kw)
         THEN "relationship_exploration"
    ELSE IF \E kw \in filter_keywords : Contains(query_lower, kw) THEN "filtered_search"
    ELSE "general_search"

\* word[0].isupper() and len(word) > 2
IsEntityWord(word) == IsUpper(word[1]) /\ Len(word) > 2

RECURSIVE EntityWords(_)
EntityWords(words) ==
    IF words = <<>> THEN <<>>
    ELSE (IF IsEntityWord(Head(words)) THEN <<Head(words)>> ELSE <<>>)
         \o EntityWords(Tail(words))

_extract_entities(query_text) == EntityWords(Split(query_text))

\* min(len/200, 0.3) + min(entities/10, 0.3) + min(ops/5, 0.2) + min(q/3, 0.2),
\* capped at 1.0; in 600ths
_calculate_complexity_uncapped(query_text, entities) ==
    LET op_count == Cardinality({op \in logical_ops : Contains(Lower(query_text), op)})
        q_count == Cardinality({qw \in question_words : Contains(Lower(query_text), qw)})
    IN Min(  Min(3 * Len(query_text), 180)
           + 60 * Len(entities)
           + Min(120 * op_count, 120)
           + Min(200 * q_count, 120),
           600)

_calculate_complexity(query_text, entities) ==
    LET op_count == Cardinality({op \in logical_ops : Contains(Lower(query_text), op)})
        q_count == Cardinality({qw \in question_words : Contains(Lower(query_text), qw)})
    IN Min(  Min(3 * Len(query_text), 180)
           + Min(60 * Len(entities), 180)
           + Min(120 * op_count, 120)
           + Min(200 * q_count, 120),
           600)

analyze_query(query_text) ==
    LET entities == _extract_entities(query_text)
    IN [text |-> query_text,
        intent |-> _determine_intent(Lower(query_text)),
        entities_mentioned |-> entities,
        complexity_score |-> _calculate_complexity(query_text, entities)]

(***************************************************************************)
(* StrategySelector                                                        *)
(***************************************************************************)
Strategies == {"vector_only", "graph_only", "logical_filter", "hybrid", "adaptive"}

strategy_rules(intent) ==
    CASE intent = "entity_lookup" -> "vector_only"
      [] intent = "relationship_exploration" -> "graph_only"
      [] intent = "filtered_search" -> "logical_filter"
      [] intent = "general_search" -> "hybrid"
      [] OTHER -> "hybrid"

select_strategy_le(query) ==
    IF query.complexity_score <= 180 THEN "vector_only"
    ELSE IF query.complexity_score > 420 THEN "adaptive"
    ELSE strategy_rules(query.intent)

select_strategy(query) ==
    IF query.complexity_score < 180 THEN "vector_only"
    ELSE IF query.complexity_score > 420 THEN "adaptive"
    ELSE strategy_rules(query.intent)

(***************************************************************************)
(* EnhancedAgenticRetrieval: the tools.  A tool takes the query, its limit *)
(* and st = [chain, calls] (the reasoning_chain the caller passes in, and  *)
(* the log of tool invocations so far) and returns [results, chain, calls, *)
(* raised]: raised is the message of an exception leaving the tool, else   *)
(* "".  A chain step is [step, n]: n is the count it records, else -1.     *)
(***************************************************************************)
Step(name, count) == [step |-> name, n |-> count]
NoCount == 0 - 1

Prefix(s, k) == SubSeq(s, 1, Min(k, Len(s)))

Returns(results, chain, calls) ==
    [results |-> results, chain |-> chain, calls |-> calls, raised |-> ""]
Raises(error, chain, calls) ==
    [results |-> <<>>, chain |-> chain, calls |-> calls, raised |-> error]

tools_available(tool) ==
    CASE tool = "vector_search" -> chroma_client # "None"
      [] tool = "graph_traversal" -> neo4j_driver # "None"
      [] tool = "logical_filter" -> TRUE
      [] tool = "hybrid" -> chroma_client # "None" /\ neo4j_driver # "None"

\* score = 1 - distance
VectorResult(rec) ==
    [content |-> rec.content, score |-> 100 - rec.distance, source_type |-> "vector"]

\* score = relation.get("weight", 0.5)
GraphResult(row) ==
    [content |-> row.content,
     score |-> IF row.weight = <<>> THEN 50 ELSE row.weight[1],
     source_type |-> "graph"]

\* chroma_client.query(..., n_results=n_results): what the index answers
IndexQuery(n_results) ==
    IF chroma_client = "ignores_limit" THEN vecStore ELSE Prefix(vecStore, n_results)

\* the same without the try/except around the index query
_vector_retrieval_uncaught(query, max_results, st) ==
    LET calls == Append(st.calls, [tool |-> "vector", limit |-> max_results])
    IN IF ~tools_available("vector_search")
       THEN Returns(<<>>, Append(st.chain, Step("vector_search_unavailable", NoCount)), calls)
       ELSE LET chain1 == Append(st.chain, Step("vector_search", NoCount))
            IN IF chroma_client = "raises"
               THEN Raises("vector index unreachable", chain1, calls)
               ELSE LET found == IndexQuery(max_results)
                        results == [i \in 1..Len(found) |-> VectorResult(found[i])]
                    IN Returns(results,
                               Append(chain1, Step("vector_results", Len(results))), calls)

_vector_retrieval(query, max_results, st) ==
    LET calls == Append(st.calls, [tool |-> "vector", limit |-> max_results])
    IN IF ~tools_available("vector_search")
       THEN Returns(<<>>, Append(st.chain, Step("vector_search_unavailable", NoCount)), calls)
       ELSE LET chain1 == Append(st.chain, Step("vector_search", NoCount))
            IN IF chroma_client = "raises"
               THEN Returns(<<>>, Append(chain1, Step("vector_search_error", NoCount)), calls)
               ELSE LET found == IndexQuery(max_results)
                        results == [i \in 1..Len(found) |-> VectorResult(found[i])]
                    IN Returns(results,
                               Append(chain1, Step("vector_results", Len(results))), calls)

\* the rows one matched Entity node contributes: LIMIT $limit
RECURSIVE Repeat(_, _)
Repeat(s, k) == IF k <= 0 THEN <<>> ELSE s \o Repeat(s, k - 1)

\* for entity_name in entities_mentioned: for each matched node (LIMIT 5):
\*     its neighborhood, LIMIT max_results // len(entities_mentioned);
\* with no entity mentioned, one general query, LIMIT max_results
GraphRows(query, max_results) ==
    IF query.entities_mentioned # <<>>
    THEN Repeat(Prefix(graphStore, max_results \div Len(query.entities_mentioned)),
                Len(query.entities_mentioned) * Min(graphNodes, 5))
    ELSE Prefix(graphStore, max_results)

\* the same with an except branch that records nothing
_graph_retrieval_silent(query, max_results, st) ==
    LET calls == Append(st.calls, [tool |-> "graph", limit |-> max_results])
    IN IF ~tools_available("graph_traversal")
       THEN Returns(<<>>, Append(st.chain, Step("graph_search_unavailable", NoCount)), calls)
       ELSE LET chain1 == Append(st.chain, Step("graph_search", NoCount))
            IN IF neo4j_driver = "raises"
               THEN Returns(<<>>, chain1, calls)
               ELSE LET rows == GraphRows(query, max_results)
                        results == [i \in 1..Len(rows) |-> GraphResult(rows[i])]
                    IN Returns(Prefix(results, max_results),
                               Append(chain1, Step("graph_results", Len(results))), calls)

_graph_retrieval(query, max_results, st) ==
    LET calls == Append(st.calls, [tool |-> "graph", limit |-> max_results])
    IN IF ~tools_available("graph_traversal")
       THEN Returns(<<>>, Append(st.chain, Step("graph_search_unavailable", NoCount)), calls)
       ELSE LET chain1 == Append(st.chain, Step("graph_search", NoCount))
            IN IF neo4j_driver = "raises"
               THEN Returns(<<>>, Append(chain1, Step("graph_search_error", NoCount)), calls)
               ELSE LET rows == GraphRows(query, max_results)
                        results == [i \in 1..Len(rows) |-> GraphResult(rows[i])]
                    IN Returns(Prefix(results, max_results),
                               Append(chain1, Step("graph_results", Len(results))), calls)

_filter_retrieval(query, max_results, st) ==
    Returns(<<>>,
            st.chain \o <<Step("logical_filter", NoCount), Step("filter_results", 0)>>,
            Append(st.calls, [tool |-> "filter", limit |-> max_results]))

\* content_key = result.content.lower().strip()
ContentKey(result) == Strip(Lower(result.content))

\* keep the first result of each content key
RECURSIVE Dedup(_, _)
Dedup(all_results, seen_content) ==
    IF all_results = <<>> THEN <<>>
    ELSE LET content_key == ContentKey(Head(all_results))
         IN IF content_key \notin seen_content
            THEN <<Head(all_results)>> \o Dedup(Tail(all_results), seen_content \cup {content_key})
            ELSE Dedup(Tail(all_results), seen_content)

\* list.sort(key=score, reverse=True): stable, equal scores keep their order
RECURSIVE InsertByScore(_, _)
InsertByScore(sorted, r) ==
    IF sorted = <<>> THEN <<r>>
    ELSE IF Head(sorted).score >= r.score
         THEN <<Head(sorted)>> \o InsertByScore(Tail(sorted), r)
         ELSE <<r>> \o sorted

RECURSIVE SortByScore(_)
SortByScore(s) ==
    IF s = <<>> THEN <<>>
    ELSE InsertByScore(SortByScore(SubSeq(s, 1, Len(s) - 1)), s[Len(s)])

Scores(results) == [i \in 1..Len(results) |-> results[i].score]

\* the same with a sort that reverses the results of equal score
HybridMergeTiesReversed(all_results) ==
    LET unique == Dedup(all_results, {})
    IN SortByScore([i \in 1..Len(unique) |-> unique[Len(unique) + 1 - i]])

\* the merge of _hybrid_retrieval: first occurrence of each content key, then
\* unique_results.sort(key=score, reverse=True)
HybridMerge(all_results) == SortByScore(Dedup(all_results, {}))

\* the merge with the sort before the deduplication
HybridMergeSortFirst(all_results) == Dedup(SortByScore(all_results), {})

\* _hybrid_retrieval from the point where the results are merged: vector_results
\* and graph_results are what the tools returned, unique_results their merge
HybridCombine(max_results, vector_results, graph_results, unique_results) ==
    IF vector_results.raised # "" THEN vector_results
    ELSE IF graph_results.raised # "" THEN graph_results
    ELSE Returns(Prefix(unique_results, max_results),
                 Append(graph_results.chain,
                        Step("hybrid_combination", Len(unique_results))),
                 graph_results.calls)

\* the same with the sort before the deduplication
HybridAfterGraphSortFirst(max_results, vector_results, graph_results) ==
    HybridCombine(max_results, vector_results, graph_results,
                  HybridMergeSortFirst(vector_results.results \o graph_results.results))

\* ... from the point where both tools have returned
HybridAfterGraph(max_results, vector_results, graph_results) ==
    HybridCombine(max_results, vector_results, graph_results,
                  HybridMerge(vector_results.results \o graph_results.results))

HybridAfterVectorSortFirst(query, max_results, vector_results) ==
    HybridAfterGraphSortFirst(max_results, vector_results,
                              _graph_retrieval(query, max_results \div 2,
                                               [chain |-> vector_results.chain,
                                                calls |-> vector_results.calls]))

\* ... from the point where the vector tool has returned
HybridAfterVector(query, max_results, vector_results) ==
    HybridAfterGraph(max_results, vector_results,
                     _graph_retrieval(query, max_results \div 2,
                                      [chain |-> vector_results.chain,
                                       calls |-> vector_results.calls]))

_hybrid_retrieval_sort_first(query, max_results, st) ==
    HybridAfterVectorSortFirst(query, max_results,
                               _vector_retrieval(query, max_results \div 2,
                                                 [chain |-> Append(st.chain,
                                                                   Step("hybrid_search", NoCount)),
                                                  calls |-> st.calls]))

_hybrid_retrieval(query, max_results, st) ==
    HybridAfterVector(query, max_results,
                      _vector_retrieval(query, max_results \div 2,
                                        [chain |-> Append(st.chain,
                                                          Step("hybrid_search", NoCount)),
                                         calls |-> st.calls]))

\* len(initial_results) > 0 and np.mean(scores) >= 0.7
GoodInitialGe(initial_results) ==
    Len(initial_results) > 0 /\ SumSeq(Scores(initial_results)) >= 70 * Len(initial_results)

\* len(initial_results) > 0 and np.mean(scores) > 0.7
GoodInitial(initial_results) ==
    Len(initial_results) > 0 /\ SumSeq(Scores(initial_results)) > 70 * Len(initial_results)

\* _adaptive_retrieval from the point where its second pass has returned: good is
\* the test on the first pass, last what the graph pass or the hybrid re-run returned
AdaptiveDecision(max_results, initial, good, last) ==
    LET all_results == IF good THEN initial.results \o last.results ELSE last.results
    IN IF initial.raised # "" THEN initial
       ELSE IF last.raised # "" THEN last
       ELSE Returns(Prefix(all_results, max_results),
                    Append(last.chain, Step("adaptive_decision", Len(all_results))),
                    last.calls)

\* ... from the point where the first vector pass has returned
AdaptiveAfterInitial(query, max_results, initial, st1) ==
    AdaptiveDecision(max_results, initial, GoodInitial(initial.results),
                     IF GoodInitial(initial.results)
                     THEN _graph_retrieval(query, max_results \div 3, st1)
                     ELSE _hybrid_retrieval(query, max_results, st1))

AdaptiveFrom(query, max_results, initial) ==
    AdaptiveAfterInitial(query, max_results, initial,
                         [chain |-> initial.chain, calls |-> initial.calls])

_adaptive_retrieval(query, max_results, st) ==
    AdaptiveFrom(query, max_results,
                 _vector_retrieval(query, max_results \div 3,
                                   [chain |-> Append(st.chain,
                                                     Step("adaptive_search", NoCount)),
                                    calls |-> st.calls]))

\* avg_score*0.5 + min(n/10, 1)*0.2 + (1 - complexity*0.3)*0.2 + (types/3)*0.1,
\* then min(confidence, 1.0); over the common denominator 30000*n
Zero == [num |-> 0, den |-> 1]

\* the same without `if not results: return 0.0`
_calculate_confidence_unguarded(results, query) ==
    LET n == Len(results)
        source_types == {results[i].source_type : i \in 1..n}
        den == IF n = 0 THEN 30000 ELSE 30000 * n
        num == IF n = 0 THEN 3 * (2000 - query.complexity_score)
               ELSE 150 * SumSeq(Scores(results))
                    + 600 * n * Min(n, 10)
                    + 3 * n * (2000 - query.complexity_score)
                    + 1000 * n * Cardinality(source_types)
    IN [num |-> Min(num, den), den |-> den]

_calculate_confidence(results, query) ==
    IF results = <<>> THEN Zero
    ELSE LET n == Len(results)
             source_types == {results[i].source_type : i \in 1..n}
             den == 30000 * n
             num == 150 * SumSeq(Scores(results))
                    + 600 * n * Min(n, 10)
                    + 3 * n * (2000 - query.complexity_score)
                    + 1000 * n * Cardinality(source_types)
         IN [num |-> Min(num, den), den |-> den]

(***************************************************************************)
(* EnhancedAgenticRetrieval.retrieve.  An exception leaving the strategy   *)
(* is caught: the response is then empty, with an error step appended to   *)
(* the chain as the tools left it (one list, mutated in place), and        *)
(* confidence 0.0.  strategy "None" is the omitted argument.  calls (the   *)
(* tool invocations made) and query (the analysis) are kept with the       *)
(* response.                                                               *)
(***************************************************************************)
Dispatch(strategy, query, max_results, st) ==
    CASE strategy = "vector_only" -> _vector_retrieval(query, max_results, st)
      [] strategy = "graph_only" -> _graph_retrieval(query, max_results, st)
      [] strategy = "logical_filter" -> _filter_retrieval(query, max_results, st)
      [] strategy = "hybrid" -> _hybrid_retrieval(query, max_results, st)
      [] strategy = "adaptive" -> _adaptive_retrieval(query, max_results, st)

RetrievalResponse(strategy_used, results, reasoning_chain, confidence_score, calls, query) ==
    [strategy_used |-> strategy_used, results |-> results,
     reasoning_chain |-> reasoning_chain, total_results |-> Len(results),
     confidence_score |-> confidence_score, calls |-> calls, query |-> query]

\* retrieve from the point where the strategy has run: out is what it returned or
\* raised
Respond(query, strategy, out) ==
    IF out.raised = ""
    THEN RetrievalResponse(strategy, out.results, out.chain,
                           _calculate_confidence(out.results, query), out.calls, query)
    ELSE RetrievalResponse(strategy, <<>>, Append(out.chain, Step("error", NoCount)),
                           Zero, out.calls, query)

\* ... from the point where the strategy is chosen
RetrieveWith(query, strategy, max_results) ==
    Respond(query, strategy,
            Dispatch(strategy, query, max_results,
                     [chain |-> <<Step("query_analysis", NoCount)>>, calls |-> <<>>]))

\* ... from the point where the query is analyzed
RetrieveAnalyzed(query, strategy_arg, max_results) ==
    RetrieveWith(query,
                 IF strategy_arg = "None" THEN select_strategy(query) ELSE strategy_arg,
                 max_results)

retrieve(query_text, strategy_arg, max_results) ==
    RetrieveAnalyzed(analyze_query(query_text), strategy_arg, max_results)

(***************************************************************************)
(* ConversationMemory.  mem = [conversations, conversation_metadata]; an   *)
(* id the memory does not know is not in the domain of either map.         *)
(***************************************************************************)
DefaultMaxMessages == 20
context_window == 6

Memory == [conversations |-> conversations, conversation_metadata |-> conversation_metadata]

\* deque(maxlen=capacity).append(message)
DequeAppendKeepOldest(buffer, message, capacity) ==
    IF Len(buffer) < capacity THEN Append(buffer, message) ELSE buffer

DequeAppend(buffer, message, capacity) ==
    IF capacity = 0 THEN <<>>
    ELSE IF Len(buffer) < capacity THEN Append(buffer, message)
    ELSE Append(Tail(buffer), message)

\* the same with one buffer shared by the ids: the message goes to every known
\* conversation
add_message_shared(mem, conversation_id, message) ==
    LET known == conversation_id \in DOMAIN mem.conversations
        count == IF known THEN mem.conversation_metadata[conversation_id].message_count ELSE 0
    IN [conversations |->
            [id \in DOMAIN mem.conversations \cup {conversation_id} |->
                DequeAppend(IF id \in DOMAIN mem.conversations THEN mem.conversations[id]
                            ELSE <<>>,
                            message, max_messages)],
        conversation_metadata |->
            [id \in DOMAIN mem.conversation_metadata \cup {conversation_id} |->
                IF id = conversation_id THEN [message_count |-> count + 1]
                ELSE mem.conversation_metadata[id]]]

add_message(mem, conversation_id, message) ==
    LET known == conversation_id \in DOMAIN mem.conversations
        buffer == IF known THEN mem.conversations[conversation_id] ELSE <<>>
        count == IF known THEN mem.conversation_metadata[conversation_id].message_count ELSE 0
    IN [conversations |->
            [id \in DOMAIN mem.conversations \cup {conversation_id} |->
                IF id = conversation_id THEN DequeAppend(buffer, message, max_messages)
                ELSE mem.conversations[id]],
        conversation_metadata |->
            [id \in DOMAIN mem.conversation_metadata \cup {conversation_id} |->
                IF id = conversation_id THEN [message_count |-> count + 1]
                ELSE mem.conversation_metadata[id]]]

\* the same with messages[:context_window]
get_context_oldest(mem, conversation_id) ==
    IF conversation_id \notin DOMAIN mem.conversations THEN <<>>
    ELSE LET messages == mem.conversations[conversation_id]
         IN SubSeq(messages, 1, Min(context_window, Len(messages)))

\* messages[-context_window:]
get_context(mem, conversation_id) ==
    IF conversation_id \notin DOMAIN mem.conversations THEN <<>>
    ELSE LET messages == mem.conversations[conversation_id]
         IN SubSeq(messages, Len(messages) - Min(context_window, Len(messages)) + 1,
                   Len(messages))

\* the same deleting the buffer only: the metadata entry stays
clear_conversation_buffer_only(mem, conversation_id) ==
    IF conversation_id \in DOMAIN mem.conversations
    THEN [mem |-> [conversations |->
                      [id \in DOMAIN mem.conversations \ {conversation_id} |->
                          mem.conversations[id]],
                   conversation_metadata |-> mem.conversation_metadata],
          result |-> TRUE]
    ELSE [mem |-> mem, result |-> FALSE]

\* the same emptying the buffer in place: the id stays known and its count stands
clear_conversation_in_place(mem, conversation_id) ==
    IF conversation_id \in DOMAIN mem.conversations
    THEN [mem |-> [conversations |->
                      [id \in DOMAIN mem.conversations |->
                          IF id = conversation_id THEN <<>> ELSE mem.conversations[id]],
                   conversation_metadata |-> mem.conversation_metadata],
          result |-> TRUE]
    ELSE [mem |-> mem, result |-> FALSE]

\* EnhancedReasoningStream.clear_conversation: [mem, result]
clear_conversation(mem, conversation_id) ==
    IF conversation_id \in DOMAIN mem.conversations
    THEN [mem |-> [conversations |->
                      [id \in DOMAIN mem.conversations \ {conversation_id} |->
                          mem.conversations[id]],
                   conversation_metadata |->
                      [id \in DOMAIN mem.conversation_metadata \ {conversation_id} |->
                          mem.conversation_metadata[id]]],
          result |-> TRUE]
    ELSE [mem |-> mem, result |-> FALSE]

(***************************************************************************)
(* Text the engine produces.  A message content and an answer are records  *)
(* [kind, text, n, sum, error]: text holds the texts quoted, n and sum the *)
(* count and the score sum an extractive answer reports, error the         *)
(* exception message an error answer carries.                              *)
(***************************************************************************)
Content(kind, text, n, sum, error) ==
    [kind |-> kind, text |-> text, n |-> n, sum |-> sum, error |-> error]

QueryContent(query) == Content("query", <<query>>, 0, 0, "")
NoAnswer == Content("none", <<>>, 0, 0, "")

\* ConversationMessage; id stands for the uuid4: the conversation and a serial number
ConversationMessage(id, role, content) == [id |-> id, role |-> role, content |-> content]

(***************************************************************************)
(* ReasoningEngine.  A call that can raise returns [ok, value, error].     *)
(***************************************************************************)
Ok(value) == [ok |-> TRUE, value |-> value, error |-> ""]
Raise(error) == [ok |-> FALSE, value |-> <<>>, error |-> error]

ReasoningStep(step_type, confidence) == [step_type |-> step_type, confidence |-> confidence]

\* `"source_type" in result` on a RetrievalResult (a dataclass, not a dict) raises
\* TypeError; the empty list returns before the loop
_summarize_retrieval_results(results) ==
    IF results = <<>> THEN Ok([sources_found |-> 0, avg_confidence |-> 0])
    ELSE Raise("argument of type 'RetrievalResult' is not iterable")

\* result.get(...) on a RetrievalResult raises AttributeError; with no result
\* the base confidence 0.7 stands
_synthesize_evidence(query, retrieval_results, context) ==
    IF retrieval_results = <<>>
    THEN Ok([synthesis_confidence |-> Min(70, 100), supporting_evidence_count |-> 0,
             context_integration |-> Len(context) > 0])
    ELSE Raise("'RetrievalResult' object has no attribute 'get'")

generate_reasoning_chain(query, context, retrieval_results) ==
    LET step1 == ReasoningStep("query_analysis", 90)
        retrieval_summary == _summarize_retrieval_results(retrieval_results)
        synthesis == _synthesize_evidence(query, retrieval_results, context)
    IN IF ~retrieval_summary.ok THEN Raise(retrieval_summary.error)
       ELSE IF ~synthesis.ok THEN Raise(synthesis.error)
       ELSE Ok(<<step1,
                 ReasoningStep("information_retrieval", retrieval_summary.value.avg_confidence),
                 ReasoningStep("evidence_synthesis", synthesis.value.synthesis_confidence)>>)

(***************************************************************************)
(* EnhancedReasoningStream: answer generation                              *)
(***************************************************************************)
Contents(results) == [i \in 1..Len(results) |-> results[i].content]

\* the top result, the next two, the count and the average score
_generate_fallback_answer(query, retrieval_results) ==
    IF retrieval_results = <<>> THEN Content("fallback", <<>>, 0, 0, "")
    ELSE Content("fallback", Contents(Prefix(retrieval_results, 3)),
                 Len(retrieval_results), SumSeq(Scores(retrieval_results)), "")

\* the same without the try/except around the client's call: kind "raised" is the
\* exception leaving the method
_generate_llm_answer_uncaught(query, retrieval_results, context) ==
    CASE llm_client = "chat" -> Content("llm", <<>>, 0, 0, "")
      [] llm_client = "generate" -> Content("llm", <<>>, 0, 0, "")
      [] llm_client = "other" -> _generate_fallback_answer(query, retrieval_results)
      [] llm_client = "raises" -> Content("raised", <<>>, 0, 0, "language model call failed")

\* the client's call inside try/except: the model's text, or the fallback
_generate_llm_answer(query, retrieval_results, context) ==
    CASE llm_client = "chat" -> Content("llm", <<>>, 0, 0, "")
      [] llm_client = "generate" -> Content("llm", <<>>, 0, 0, "")
      [] llm_client = "other" -> _generate_fallback_answer(query, retrieval_results)
      [] llm_client = "raises" -> _generate_fallback_answer(query, retrieval_results)

_generate_answer(query, retrieval_results, context, reasoning_steps) ==
    IF llm_client # "None" THEN _generate_llm_answer(query, retrieval_results, context)
    ELSE _generate_fallback_answer(query, retrieval_results)

(***************************************************************************)
(* EnhancedReasoningStream: the calls.  A task is one call of              *)
(* process_query or stream_response; pc is where the coroutine stands.     *)
(***************************************************************************)
NoQuery == [text |-> <<>>, intent |-> "", entities_mentioned |-> <<>>, complexity_score |-> 0]

NoRetrieval ==
    [strategy_used |-> "none", results |-> <<>>, reasoning_chain |-> <<>>,
     total_results |-> 0, confidence_score |-> Zero, calls |-> <<>>, query |-> NoQuery]

RAGResponse(query, answer, supporting_evidence, reasoning_steps, confidence_score, sources_used, conversation_id) ==
    [query |-> query, answer |-> answer, supporting_evidence |-> supporting_evidence,
     reasoning_steps |-> reasoning_steps, confidence_score |-> confidence_score,
     sources_used |-> sources_used, conversation_id |-> conversation_id]

NoResponse == RAGResponse(<<>>, NoAnswer, <<>>, <<>>, Zero, {}, "")

IdleTask ==
    [kind |-> "none", pc |-> "idle", query |-> <<>>, conversation_id |-> "",
     context |-> <<>>, retrieval |-> NoRetrieval, reasoning_steps |-> <<>>,
     raised |-> "", outcome |-> "", response |-> NoResponse, events |-> <<>>,
     response_id |-> <<"", 0>>, strategy |-> "", max_results |-> 0, pending |-> <<>>]

\* the except branch of process_query: the error response is returned, nothing is
\* appended to the memory
ProcessQueryExceptReraise(task, error) ==
    [task EXCEPT !.pc = "done", !.raised = error, !.outcome = "raised"]

ProcessQueryExcept(task, error) ==
    [task EXCEPT !.pc = "done", !.raised = error, !.outcome = "returned",
                 !.response = RAGResponse(task.query, Content("error", <<>>, 0, 0, error),
                                          <<>>, <<>>, Zero, {}, task.conversation_id)]

\* supporting_evidence: content, score, source_type of each result, in order
SupportingEvidence(results) ==
    [i \in 1..Len(results) |->
        [content |-> results[i].content, score |-> results[i].score,
         source_type |-> results[i].source_type]]

SourcesUsed(results) == {results[i].source_type : i \in 1..Len(results)}

\* Suspension points (asyncio): the graph store's session and queries inside
\* retrieve, the language model's call, and every yield of the generator.  A
\* process_query task between two of them holds the event loop.
RetrieveSuspends == neo4j_driver # "None"
AnswerSuspends == llm_client \in {"chat", "generate", "raises"}

\* No call to a store carries a timeout: chroma_client.query and session.run return
\* when the store answers.  A tool invocation waits for as long as its store hangs.
Hangs(tool) ==
    \/ tool = "vector" /\ chroma_client = "hangs"
    \/ tool = "graph" /\ neo4j_driver = "hangs"

Running(task) ==
    /\ task.kind = "process_query"
    /\ \/ task.pc = "reason"
       \/ task.pc = "retrieve" /\ ~RetrieveSuspends
       \/ task.pc = "answer" /\ ~AnswerSuspends

(***************************************************************************)
(* Bounds and the inputs drawn                                             *)
(***************************************************************************)
MaxTasks == 1            \* calls in flight at once
MaxCalls == 2            \* process_query calls per conversation
MaxAdds == 21            \* add_message calls per conversation (ConversationMemory alone)
MaxVec == 3              \* records in the vector index
MaxGraph == 2            \* rows in the graph store
MaxNodes == 1            \* Entity nodes matching one name
MaxStoreMain == 1        \* records per store while calls are in flight
MaxConcurrent == 2       \* process_query calls in flight at once (concurrent callers)
MaxCallsLong == 5        \* process_query calls on the one conversation of a long exchange

ConvIds == {"c1", "c2"}

Q_list == <<"l","i","s","t"," ","i","t","e","m","s">>
Q_who == <<"W","h","o"," ","i","s"," ","B","o","b">>
Queries == {Q_list, Q_who}

\* query texts: up to MaxWords words of Vocabulary, one space between two
MaxWords == 4

W_long == <<"i","n","t","e","r","n","a","t","i","o","n","a","l","i","z","a","t","i","o","n">>
Vocabulary ==
    {<<"W","h","o">>, <<"B","o","b">>, <<"a","n","d">>, <<"w","h","y">>, W_long}

RECURSIVE Join(_)
Join(words) ==
    IF Len(words) = 1 THEN words[1] ELSE words[1] \o <<" ">> \o Join(Tail(words))

QueryTexts == {Join(words) : words \in UNION {[1..k -> Vocabulary] : k \in 1..MaxWords}}

\* the two scenario queries
Q_apple ==
    <<"W","h","o"," ","w","o","r","k","s"," ","f","o","r"," ","A","p","p","l","e"," ",
      "I","n","c",".","?">>
Q_related ==
    <<"H","o","w"," ","a","r","e"," ","A","p","p","l","e"," ","I","n","c","."," ","a",
      "n","d"," ","S","t","e","v","e"," ","J","o","b","s"," ","r","e","l","a","t","e",
      "d",","," ","a","n","d"," ","w","h","a","t"," ","c","o","m","p","a","n","i","e",
      "s"," ","a","r","e"," ","t","h","e","y"," ","c","o","n","n","e","c","t","e","d",
      " ","t","o","?">>
ScenarioTexts == {Q_apple, Q_related}

ProcessQueryMaxResults == 10
MaxResultsValues == {4, ProcessQueryMaxResults}

VecRecords == [content : {<<"A">>, <<"b">>}, distance : {15, 30, 200}]
GraphRecords == [content : {<<"a", " ">>, <<"b">>}, weight : {<<>>, <<90>>}]

SeqsUpTo(S, n) == UNION {[1..k -> S] : k \in 0..n}

\* the index answers nearest first
NearestFirst(s) == \A i \in 1..(Len(s) - 1) : s[i].distance <= s[i + 1].distance

VecStores(records, n) == {s \in SeqsUpTo(records, n) : NearestFirst(s)}
GraphStores(records, n) == SeqsUpTo(records, n)

\* the records drawn while calls are in flight
VecRecordsMain == [content : {<<"A">>}, distance : {15, 200}]
GraphRecordsMain == [content : {<<"a", " ">>}, weight : {<<>>}]

InitEnv(vecStores, graphStores, nNodes, llms) ==
    /\ chroma_client \in {"None", "ok", "raises"}
    /\ vecStore \in IF chroma_client = "ok" THEN vecStores ELSE {<<>>}
    /\ neo4j_driver \in {"None", "ok", "raises"}
    /\ graphStore \in IF neo4j_driver = "ok" THEN graphStores ELSE {<<>>}
    /\ graphNodes \in IF neo4j_driver = "ok" /\ graphStore # <<>> THEN 1..nNodes ELSE {1}
    /\ llm_client \in llms

InitMemory(capacities) ==
    /\ max_messages \in capacities
    /\ conversations = <<>>
    /\ conversation_metadata = <<>>
    /\ clock = [id \in ConvIds |-> 0]
    /\ history = [id \in ConvIds |-> <<>>]

InitCalls(nTasks) ==
    /\ tasks = [t \in 1..nTasks |-> IdleTask]
    /\ call = [op |-> "none"]

(***************************************************************************)
(* Direct calls of the public operations                                   *)
(***************************************************************************)
\* QueryAnalyzer.analyze_query(query_text)
AnalyzeQuery(query_text) ==
    /\ call.op = "none"
    /\ call' = [op |-> "analyze_query", query_text |-> query_text,
                result |-> analyze_query(query_text)]
    /\ UNCHANGED <<envVars, memVars, tasks>>

\* the first two steps of retrieve with the strategy omitted: analyze_query, then
\* select_strategy on the analysis
AnalyzeAndSelect(query_text) ==
    /\ call.op = "none"
    /\ call' = [op |-> "analyze_and_select", query_text |-> query_text,
                query |-> analyze_query(query_text),
                strategy |-> select_strategy(analyze_query(query_text))]
    /\ UNCHANGED <<envVars, memVars, tasks>>

\* the merge step of _hybrid_retrieval applied to the vector results followed by the
\* graph results of the stores
MergeResults ==
    /\ call.op = "none"
    /\ LET all_results == [i \in 1..Len(vecStore) |-> VectorResult(vecStore[i])]
                          \o [i \in 1..Len(graphStore) |-> GraphResult(graphStore[i])]
       IN call' = [op |-> "hybrid_merge", all_results |-> all_results,
                   result |-> HybridMerge(all_results)]
    /\ UNCHANGED <<envVars, memVars, tasks>>

\* StrategySelector.select_strategy(query)
SelectStrategy(text, intent, complexity) ==
    /\ call.op = "none"
    /\ LET query == [text |-> text, intent |-> intent,
                     entities_mentioned |-> _extract_entities(text),
                     complexity_score |-> complexity]
       IN call' = [op |-> "select_strategy", query |-> query,
                   result |-> select_strategy(query)]
    /\ UNCHANGED <<envVars, memVars, tasks>>

\* EnhancedAgenticRetrieval.retrieve(query_text, strategy, max_results)
Retrieve(query_text, strategy, max_results) ==
    /\ call.op = "none"
    /\ call' = [op |-> "retrieve", query_text |-> query_text, strategy |-> strategy,
                max_results |-> max_results,
                result |-> retrieve(query_text, strategy, max_results)]
    /\ UNCHANGED <<envVars, memVars, tasks>>

SetMemory(mem) ==
    /\ conversations' = mem.conversations
    /\ conversation_metadata' = mem.conversation_metadata

\* ConversationMemory.add_message(conversation_id, message)
AddMessage(conversation_id, role) ==
    /\ clock[conversation_id] < MaxAdds
    /\ LET message == ConversationMessage(<<conversation_id, clock[conversation_id] + 1>>,
                                          role, QueryContent(Q_list))
       IN /\ SetMemory(add_message(Memory, conversation_id, message))
          /\ history' = [history EXCEPT ![conversation_id] = Append(@, message)]
          /\ clock' = [clock EXCEPT ![conversation_id] = @ + 1]
    /\ call' = [op |-> "add_message", conversation_id |-> conversation_id]
    /\ UNCHANGED <<envVars, max_messages, tasks>>

\* EnhancedReasoningStream._generate_answer on what retrieve returns for the query
GenerateAnswer(query) ==
    /\ call.op = "none"
    /\ LET results == retrieve(query, "adaptive", ProcessQueryMaxResults).results
       IN call' = [op |-> "_generate_answer", query |-> query, results |-> results,
                   result |-> _generate_answer(query, results, <<>>, <<>>)]
    /\ UNCHANGED <<envVars, memVars, tasks>>

\* ConversationMemory.get_context(conversation_id); known: the memory held the id
\* when the call was made
GetContext(conversation_id) ==
    /\ call' = [op |-> "get_context", conversation_id |-> conversation_id,
                known |-> conversation_id \in DOMAIN conversations,
                result |-> get_context(Memory, conversation_id)]
    /\ UNCHANGED <<envVars, memVars, tasks>>

\* EnhancedReasoningStream.clear_conversation(conversation_id)
ClearConversation(conversation_id) ==
    /\ LET cleared == clear_conversation(Memory, conversation_id)
       IN /\ SetMemory(cleared.mem)
          /\ history' = IF cleared.result THEN [history EXCEPT ![conversation_id] = <<>>]
                        ELSE history
          /\ call' = [op |-> "clear_conversation", conversation_id |-> conversation_id,
                      result |-> cleared.result]
    /\ UNCHANGED <<envVars, max_messages, clock, tasks>>

(***************************************************************************)
(* process_query(query, conversation_id)                                   *)
(***************************************************************************)
\* the same with the calls serialized: a call runs only while no other is in flight
LoopFreeSerialized(t) == \A u \in DOMAIN tasks \ {t} : tasks[u].pc \in {"idle", "done"}

LoopFree(t) == \A u \in DOMAIN tasks \ {t} : ~Running(tasks[u])

\* a new call takes the lowest free task slot
FreeSlot(t) == tasks[t].pc = "idle" /\ \A u \in 1..(t - 1) : tasks[u].pc # "idle"

SetTask(t, task) == tasks' = [tasks EXCEPT ![t] = task]

\* the same with the context read before the user turn is appended
ProcessQueryStartContextFirst(t, query, conversation_id) ==
    /\ FreeSlot(t)
    /\ LoopFree(t)
    /\ LET user_message == ConversationMessage(<<conversation_id, clock[conversation_id] + 1>>,
                                               "user", QueryContent(query))
           mem == add_message(Memory, conversation_id, user_message)
       IN /\ SetMemory(mem)
          /\ history' = [history EXCEPT ![conversation_id] = Append(@, user_message)]
          /\ SetTask(t, [IdleTask EXCEPT !.kind = "process_query", !.pc = "retrieve",
                                         !.query = query,
                                         !.conversation_id = conversation_id,
                                         !.response_id =
                                             <<conversation_id, clock[conversation_id] + 2>>,
                                         !.context = get_context(Memory, conversation_id)])
    \* two ids are drawn: the user message's and the response's
    /\ clock' = [clock EXCEPT ![conversation_id] = @ + 2]
    /\ UNCHANGED <<envVars, max_messages, call>>

\* the call starts: the user turn is appended and the context read, up to
\* `await self.retrieval_system.retrieve(...)`
ProcessQueryStart(t, query, conversation_id) ==
    /\ FreeSlot(t)
    /\ LoopFree(t)
    /\ LET user_message == ConversationMessage(<<conversation_id, clock[conversation_id] + 1>>,
                                               "user", QueryContent(query))
           mem == add_message(Memory, conversation_id, user_message)
       IN /\ SetMemory(mem)
          /\ history' = [history EXCEPT ![conversation_id] = Append(@, user_message)]
          /\ SetTask(t, [IdleTask EXCEPT !.kind = "process_query", !.pc = "retrieve",
                                         !.query = query,
                                         !.conversation_id = conversation_id,
                                         !.response_id =
                                             <<conversation_id, clock[conversation_id] + 2>>,
                                         !.context = get_context(mem, conversation_id)])
    \* two ids are drawn: the user message's and the response's
    /\ clock' = [clock EXCEPT ![conversation_id] = @ + 2]
    /\ UNCHANGED <<envVars, max_messages, call>>

\* ... at most MaxCalls calls per conversation
PQ_Start(t, query, conversation_id) ==
    /\ clock[conversation_id] + 2 <= 2 * MaxCalls
    /\ ProcessQueryStart(t, query, conversation_id)

\* ... at most MaxCallsLong calls per conversation
PQ_StartLong(t, query, conversation_id) ==
    /\ clock[conversation_id] + 2 <= 2 * MaxCallsLong
    /\ ProcessQueryStart(t, query, conversation_id)

\* retrieve(query, ADAPTIVE, max_results=10) returns
PQ_Retrieve(t) ==
    /\ tasks[t].kind = "process_query" /\ tasks[t].pc = "retrieve"
    /\ LoopFree(t)
    /\ SetTask(t, [tasks[t] EXCEPT !.pc = "reason",
                      !.retrieval = retrieve(tasks[t].query, "adaptive", ProcessQueryMaxResults)])
    /\ UNCHANGED <<envVars, memVars, call>>

\* generate_reasoning_chain(query, context, retrieval_response.results)
PQ_Reason(t) ==
    /\ tasks[t].kind = "process_query" /\ tasks[t].pc = "reason"
    /\ LoopFree(t)
    /\ LET chain == generate_reasoning_chain(tasks[t].query, tasks[t].context,
                                             tasks[t].retrieval.results)
       IN IF chain.ok
          THEN SetTask(t, [tasks[t] EXCEPT !.pc = "answer", !.reasoning_steps = chain.value])
          ELSE SetTask(t, ProcessQueryExcept(tasks[t], chain.error))
    /\ UNCHANGED <<envVars, memVars, call>>

\* _generate_answer returns; the response is built, the assistant turn appended
PQ_Answer(t) ==
    /\ tasks[t].kind = "process_query" /\ tasks[t].pc = "answer"
    /\ LoopFree(t)
    /\ LET task == tasks[t]
           results == task.retrieval.results
           answer == _generate_answer(task.query, results, task.context, task.reasoning_steps)
           rag_response == RAGResponse(task.query, answer, SupportingEvidence(results),
                                       task.reasoning_steps, task.retrieval.confidence_score,
                                       SourcesUsed(results), task.conversation_id)
           assistant_message ==
               ConversationMessage(task.response_id, "assistant", answer)
       IN IF answer.kind = "raised"
          THEN /\ SetTask(t, ProcessQueryExcept(task, answer.error))
               /\ UNCHANGED <<conversations, conversation_metadata, history>>
          ELSE /\ SetMemory(add_message(Memory, task.conversation_id, assistant_message))
               /\ history' = [history EXCEPT
                                 ![task.conversation_id] = Append(@, assistant_message)]
               /\ SetTask(t, [task EXCEPT !.pc = "done", !.outcome = "returned",
                                          !.response = rag_response])
    /\ UNCHANGED <<envVars, max_messages, clock, call>>

\* the caller has the result; the task is over
TaskReturn(t) ==
    /\ tasks[t].pc = "done"
    /\ SetTask(t, IdleTask)
    /\ UNCHANGED <<envVars, memVars, call>>

(***************************************************************************)
(* stream_response(query, conversation_id): an async generator.  Each      *)
(* Stream_Next resumes it up to its next yield; events holds what it has   *)
(* yielded.  pc counts the yields passed.                                  *)
(***************************************************************************)
Event(type) == [type |-> type]

Stream_Start(t, query, conversation_id) ==
    /\ FreeSlot(t)
    /\ LoopFree(t)
    /\ SetTask(t, [IdleTask EXCEPT !.kind = "stream_response", !.pc = "s0",
                                   !.query = query, !.conversation_id = conversation_id])
    /\ UNCHANGED <<envVars, memVars, call>>

Yield(task, pc, type) == [task EXCEPT !.pc = pc, !.events = Append(@, Event(type))]

\* the except branch of stream_response
StreamExcept(task, error) == [Yield(task, "s_end", "error") EXCEPT !.raised = error]

StreamResumeCompleteFirst(task) ==
    CASE task.pc = "s0" -> Yield(task, "s1", "status")
      [] task.pc = "s1" -> Yield(task, "s2", "complete")
      [] task.pc = "s2" -> Yield(task, "s3", "retrieval_complete")
      [] task.pc = "s3" -> Yield(task, "s4", "status")
      [] task.pc = "s4" -> Yield(task, "s5", "reasoning_complete")
      [] task.pc = "s5" -> Yield(task, "s6", "status")
      [] task.pc = "s6" -> Yield(task, "s_end", "complete")
      [] task.pc = "s_end" -> [task EXCEPT !.pc = "done", !.outcome = "returned"]

StreamResume(task) ==
    CASE task.pc = "s0" -> Yield(task, "s1", "status")
      [] task.pc = "s1" -> Yield(task, "s2", "status")
      [] task.pc = "s2" ->
            Yield([task EXCEPT !.retrieval =
                       retrieve(task.query, "adaptive", ProcessQueryMaxResults)],
                  "s3", "retrieval_complete")
      [] task.pc = "s3" -> Yield(task, "s4", "status")
      [] task.pc = "s4" ->
            LET context == get_context(Memory, task.conversation_id)
                chain == generate_reasoning_chain(task.query, context, task.retrieval.results)
            IN IF chain.ok
               THEN Yield([task EXCEPT !.context = context, !.reasoning_steps = chain.value],
                          "s5", "reasoning_complete")
               ELSE StreamExcept([task EXCEPT !.context = context], chain.error)
      [] task.pc = "s5" -> Yield(task, "s6", "status")
      [] task.pc = "s6" ->
            \* the complete event's answer, supporting_evidence, reasoning_steps and
            \* conversation_id are kept in response
            LET answer == _generate_answer(task.query, task.retrieval.results,
                                           task.context, task.reasoning_steps)
            IN IF answer.kind = "raised" THEN StreamExcept(task, answer.error)
               ELSE Yield([task EXCEPT !.response =
                              [NoResponse EXCEPT
                                  !.answer = answer,
                                  !.supporting_evidence =
                                      SupportingEvidence(task.retrieval.results),
                                  !.reasoning_steps = task.reasoning_steps,
                                  !.conversation_id = task.conversation_id]],
                          "s_end", "complete")
      [] task.pc = "s_end" -> [task EXCEPT !.pc = "done", !.outcome = "returned"]

Stream_Next(t) ==
    /\ tasks[t].kind = "stream_response"
    /\ tasks[t].pc \in {"s0", "s1", "s2", "s3", "s4", "s5", "s6", "s_end"}
    /\ LoopFree(t)
    /\ SetTask(t, StreamResume(tasks[t]))
    /\ UNCHANGED <<envVars, memVars, call>>

(***************************************************************************)
(* retrieve(query_text, strategy, max_results) as a call in flight.  The   *)
(* stores do not change while it runs, so the tool invocations it is to    *)
(* make (pending) and the response it is to return (retrieval) are fixed   *)
(* when it starts; it goes through its invocations one at a time, each     *)
(* once its store has answered, and returns after the last.                *)
(***************************************************************************)
Awaiting(task, response) ==
    [task EXCEPT !.retrieval = response, !.pending = response.calls]

Retrieve_Start(t, query_text, strategy, max_results) ==
    /\ FreeSlot(t)
    /\ LoopFree(t)
    /\ SetTask(t, Awaiting([IdleTask EXCEPT !.kind = "retrieve", !.pc = "await",
                                            !.query = query_text, !.strategy = strategy,
                                            !.max_results = max_results],
                            retrieve(query_text, strategy, max_results)))
    /\ UNCHANGED <<envVars, memVars, call>>

\* the store answers (its records, or an exception) the invocation in progress
Store_Answer(t) ==
    /\ tasks[t].kind = "retrieve" /\ tasks[t].pc = "await"
    /\ tasks[t].pending # <<>>
    /\ ~Hangs(Head(tasks[t].pending).tool)
    /\ SetTask(t, [tasks[t] EXCEPT !.pending = Tail(@)])
    /\ UNCHANGED <<envVars, memVars, call>>

Retrieve_Return(t) ==
    /\ tasks[t].kind = "retrieve" /\ tasks[t].pc = "await"
    /\ tasks[t].pending = <<>>
    /\ LoopFree(t)
    /\ SetTask(t, [tasks[t] EXCEPT !.pc = "done", !.outcome = "returned"])
    /\ UNCHANGED <<envVars, memVars, call>>

(***************************************************************************)
(* The HTTP routes (api/routes/comprehensive_api_routes.py).  Each request *)
(* resolves Depends(get_reasoning_stream), which constructs a new          *)
(* EnhancedReasoningStream, and with it a new ConversationMemory, for that *)
(* request.  conversations and conversation_metadata are the memory of the *)
(* engine of the request being served.  call.served keeps, per id, the     *)
(* turns the /reasoning/query requests answered so far have appended.      *)
(***************************************************************************)
\* ConversationMemory.__init__: no conversation
NewMemory == [conversations |-> <<>>, conversation_metadata |-> <<>>]

Served == IF call.op = "none" THEN [id \in ConvIds |-> <<>>] ELSE call.served

\* POST /reasoning/query: the dependency builds the engine, then process_query runs
\* on it up to the retrieve await
Route_Query_Start(t, query, conversation_id) ==
    /\ FreeSlot(t)
    /\ LoopFree(t)
    /\ clock[conversation_id] + 2 <= 2 * MaxCalls
    /\ LET user_message == ConversationMessage(<<conversation_id, clock[conversation_id] + 1>>,
                                               "user", QueryContent(query))
           mem == add_message(NewMemory, conversation_id, user_message)
       IN /\ SetMemory(mem)
          /\ history' = [id \in ConvIds |->
                             IF id = conversation_id THEN <<user_message>> ELSE <<>>]
          /\ SetTask(t, [IdleTask EXCEPT !.kind = "process_query", !.pc = "retrieve",
                                         !.query = query,
                                         !.conversation_id = conversation_id,
                                         !.response_id =
                                             <<conversation_id, clock[conversation_id] + 2>>,
                                         !.context = get_context(mem, conversation_id)])
    /\ clock' = [clock EXCEPT ![conversation_id] = @ + 2]
    /\ UNCHANGED <<envVars, max_messages, call>>

\* the route answers with the response process_query returned; the engine is dropped
\* with the request
Route_Query_Respond(t) ==
    /\ tasks[t].kind = "process_query" /\ tasks[t].pc = "done"
    /\ call' = [op |-> "reasoning_query", conversation_id |-> tasks[t].conversation_id,
                served |-> [Served EXCEPT ![tasks[t].conversation_id] =
                                @ \o conversations[tasks[t].conversation_id]]]
    /\ SetTask(t, IdleTask)
    /\ UNCHANGED <<envVars, memVars>>

\* GET /reasoning/conversation/{conversation_id}: the dependency builds the engine,
\* get_conversation_history reads its memory
Route_Conversation(conversation_id) ==
    /\ \A t \in DOMAIN tasks : tasks[t].pc = "idle"
    /\ SetMemory(NewMemory)
    /\ history' = [id \in ConvIds |-> <<>>]
    /\ call' = [op |-> "conversation_history", conversation_id |-> conversation_id,
                messages |-> get_context(NewMemory, conversation_id),
                served |-> Served]
    /\ UNCHANGED <<envVars, max_messages, clock, tasks>>

(***************************************************************************)
(* Specifications                                                          *)
(***************************************************************************)
\* the engine serving calls
Init ==
    /\ InitEnv(VecStores(VecRecordsMain, MaxStoreMain),
               GraphStores(GraphRecordsMain, MaxStoreMain), 1, {"None", "chat", "raises"})
    /\ InitMemory({DefaultMaxMessages})
    /\ InitCalls(MaxTasks)

Next ==
    \/ \E t \in DOMAIN tasks, q \in Queries, id \in ConvIds : PQ_Start(t, q, id)
    \/ \E t \in DOMAIN tasks : PQ_Retrieve(t)
    \/ \E t \in DOMAIN tasks : PQ_Reason(t)
    \/ \E t \in DOMAIN tasks : PQ_Answer(t)
    \/ \E t \in DOMAIN tasks, q \in Queries, id \in ConvIds : Stream_Start(t, q, id)
    \/ \E t \in DOMAIN tasks : Stream_Next(t)
    \/ \E t \in DOMAIN tasks : TaskReturn(t)

Spec == Init /\ [][Next]_vars

\* the engine serving calls, or _generate_answer called once on a new engine
Fresh == call.op = "none" /\ \A id \in ConvIds : clock[id] = 0

NextAnswer ==
    \/ call.op = "none" /\ Next
    \/ \E q \in Queries : Fresh /\ GenerateAnswer(q)

SpecAnswer == Init /\ [][NextAnswer]_vars

\* retrieve called on every store content
InitRetrieve ==
    /\ InitEnv(VecStores(VecRecords, MaxVec), GraphStores(GraphRecords, MaxGraph),
               MaxNodes, {"None"})
    /\ InitMemory({DefaultMaxMessages})
    /\ InitCalls(MaxTasks)

NextRetrieve ==
    \E q \in Queries, s \in Strategies \cup {"None"}, m \in MaxResultsValues : Retrieve(q, s, m)

SpecRetrieve == InitRetrieve /\ [][NextRetrieve]_vars

\* retrieve called on an index that may answer with more than n_results records,
\* and a graph store where a name may match several Entity nodes
MaxResultsSmall == {2, 4}

InitOverfull ==
    /\ chroma_client \in {"ok", "ignores_limit"}
    /\ vecStore \in VecStores(VecRecordsMain, MaxVec)
    /\ neo4j_driver \in {"None", "ok", "raises"}
    /\ graphStore \in IF neo4j_driver = "ok" THEN GraphStores(GraphRecords, MaxGraph) ELSE {<<>>}
    /\ graphNodes \in IF neo4j_driver = "ok" /\ graphStore # <<>> THEN 1..(MaxNodes + 1) ELSE {1}
    /\ llm_client = "None"
    /\ InitMemory({DefaultMaxMessages})
    /\ InitCalls(MaxTasks)

NextOverfull ==
    \E q \in Queries, s \in Strategies \cup {"None"}, m \in MaxResultsSmall : Retrieve(q, s, m)

SpecOverfull == InitOverfull /\ [][NextOverfull]_vars

\* retrieve in flight against stores that may never answer; a call that can
\* return does return
InitHang ==
    /\ chroma_client \in {"None", "ok", "raises", "hangs"}
    /\ vecStore \in IF chroma_client = "ok" THEN VecStores(VecRecordsMain, MaxStoreMain)
                     ELSE {<<>>}
    /\ neo4j_driver \in {"None", "ok", "raises", "hangs"}
    /\ graphStore \in IF neo4j_driver = "ok" THEN GraphStores(GraphRecordsMain, MaxStoreMain)
                       ELSE {<<>>}
    /\ graphNodes = 1
    /\ llm_client = "None"
    /\ InitMemory({DefaultMaxMessages})
    /\ InitCalls(MaxTasks)

NextHang ==
    \/ \E t \in DOMAIN tasks, q \in Queries, s \in Strategies \cup {"None"},
          m \in MaxResultsValues : Retrieve_Start(t, q, s, m)
    \/ \E t \in DOMAIN tasks : Store_Answer(t)
    \/ \E t \in DOMAIN tasks : Retrieve_Return(t)
    \/ \E t \in DOMAIN tasks : TaskReturn(t)

SpecHang ==
    /\ InitHang /\ [][NextHang]_vars
    /\ \A t \in 1..MaxTasks : WF_vars(Store_Answer(t)) /\ WF_vars(Retrieve_Return(t))

\* select_strategy called on every intent and complexity
InitPlain ==
    /\ InitEnv({<<>>}, {<<>>}, 1, {"None"})
    /\ chroma_client = "None" /\ neo4j_driver = "None"
    /\ InitMemory({DefaultMaxMessages})
    /\ InitCalls(MaxTasks)

ComplexityValues == {c \in 0..600 : c % 3 = 0}

NextSelect ==
    \E q \in Queries, i \in Intents, c \in ComplexityValues : SelectStrategy(q, i, c)

SpecSelect == InitPlain /\ [][NextSelect]_vars

\* analyze_query called on every query text
NextAnalyze == \E text \in QueryTexts : AnalyzeQuery(text)

SpecAnalyze == InitPlain /\ [][NextAnalyze]_vars

\* analysis and strategy selection on every query text and the scenario queries
NextScenario == \E text \in QueryTexts \cup ScenarioTexts : AnalyzeAndSelect(text)

SpecScenario == InitPlain /\ [][NextScenario]_vars

\* the hybrid merge applied to every store content
NextMerge == MergeResults

SpecMerge == InitRetrieve /\ [][NextMerge]_vars

\* several process_query calls in flight on one engine; the stores answer with at
\* most one record
InitConcurrent ==
    /\ chroma_client \in {"None", "ok"}
    /\ vecStore \in IF chroma_client = "ok" THEN VecStores(VecRecordsMain, MaxStoreMain)
                     ELSE {<<>>}
    /\ neo4j_driver \in {"None", "ok"}
    /\ graphStore \in IF neo4j_driver = "ok" THEN GraphStores(GraphRecordsMain, MaxStoreMain)
                       ELSE {<<>>}
    /\ graphNodes = 1
    /\ llm_client \in {"None", "chat"}
    /\ InitMemory({DefaultMaxMessages})
    /\ InitCalls(MaxConcurrent)

\* no call in flight is on the conversation
IdFree(conversation_id) ==
    \A u \in DOMAIN tasks :
        tasks[u].pc \notin {"idle", "done"} => tasks[u].conversation_id # conversation_id

\* ... the callers never have two calls in flight on one conversation id
NextDistinct ==
    \/ \E t \in DOMAIN tasks, q \in Queries, id \in ConvIds : IdFree(id) /\ PQ_Start(t, q, id)
    \/ \E t \in DOMAIN tasks : PQ_Retrieve(t)
    \/ \E t \in DOMAIN tasks : PQ_Reason(t)
    \/ \E t \in DOMAIN tasks : PQ_Answer(t)
    \/ \E t \in DOMAIN tasks : TaskReturn(t)

SpecDistinct == InitConcurrent /\ [][NextDistinct]_vars

\* ... the callers start calls on any id at any time
NextConcurrent ==
    \/ \E t \in DOMAIN tasks, q \in Queries, id \in ConvIds : PQ_Start(t, q, id)
    \/ \E t \in DOMAIN tasks : PQ_Retrieve(t)
    \/ \E t \in DOMAIN tasks : PQ_Reason(t)
    \/ \E t \in DOMAIN tasks : PQ_Answer(t)
    \/ \E t \in DOMAIN tasks : TaskReturn(t)

SpecConcurrent == InitConcurrent /\ [][NextConcurrent]_vars

\* the routes serving one request at a time
NextRoutes ==
    \/ \E t \in DOMAIN tasks, q \in Queries, id \in ConvIds : Route_Query_Start(t, q, id)
    \/ \E t \in DOMAIN tasks : PQ_Retrieve(t)
    \/ \E t \in DOMAIN tasks : PQ_Reason(t)
    \/ \E t \in DOMAIN tasks : PQ_Answer(t)
    \/ \E t \in DOMAIN tasks : Route_Query_Respond(t)
    \/ \E id \in ConvIds : Route_Conversation(id)

SpecRoutes == Init /\ [][NextRoutes]_vars

\* a long exchange on one conversation id, calls overlapping, the memory of
\* capacity 1, 3 or 20; the graph store, when there is one, answers with at most one row
Capacities == {1, 3, DefaultMaxMessages}

InitSnapshot ==
    /\ chroma_client = "None" /\ vecStore = <<>>
    /\ neo4j_driver \in {"None", "ok"}
    /\ graphStore \in IF neo4j_driver = "ok" THEN GraphStores(GraphRecordsMain, MaxStoreMain)
                       ELSE {<<>>}
    /\ graphNodes = 1
    /\ llm_client \in {"None", "chat"}
    /\ InitMemory(Capacities)
    /\ InitCalls(MaxConcurrent)

NextSnapshot ==
    \/ \E t \in DOMAIN tasks : PQ_StartLong(t, Q_who, "c1")
    \/ \E t \in DOMAIN tasks : PQ_Retrieve(t)
    \/ \E t \in DOMAIN tasks : PQ_Reason(t)
    \/ \E t \in DOMAIN tasks : PQ_Answer(t)
    \/ \E t \in DOMAIN tasks : TaskReturn(t)

SpecSnapshot == InitSnapshot /\ [][NextSnapshot]_vars

\* the conversation memory called directly
NextMemory ==
    \/ \E id \in ConvIds, role \in {"user"} : AddMessage(id, role)
    \/ \E id \in ConvIds : GetContext(id)
    \/ \E id \in ConvIds : ClearConversation(id)

SpecMemory == InitPlain /\ [][NextMemory]_vars

(***************************************************************************)
(* Properties                                                              *)
(***************************************************************************)
ProcessQueryTasks == {t \in DOMAIN tasks : tasks[t].kind = "process_query"}
StreamTasks == {t \in DOMAIN tasks : tasks[t].kind = "stream_response"}

\* C1: process_query never raises to its caller; when a phase raises it returns the
\* error response: confidence 0.0, no supporting evidence, no reasoning steps, the
\* caller's conversation id, and an answer carrying the exception's message.
C1_NeverRaises ==
    \A t \in ProcessQueryTasks :
        /\ tasks[t].outcome # "raised"
        /\ tasks[t].raised # "" =>
              /\ tasks[t].pc = "done" /\ tasks[t].outcome = "returned"
              /\ tasks[t].response.confidence_score.num = 0
              /\ tasks[t].response.supporting_evidence = <<>>
              /\ tasks[t].response.reasoning_steps = <<>>
              /\ tasks[t].response.conversation_id = tasks[t].conversation_id
              /\ tasks[t].response.answer.kind = "error"
              /\ tasks[t].response.answer.error = tasks[t].raised

C1_Witness ==
    \E t \in ProcessQueryTasks :
        tasks[t].pc = "done" /\ tasks[t].raised # "" /\ tasks[t].retrieval.total_results > 0

NoStoreOrModelFails ==
    chroma_client # "raises" /\ neo4j_driver # "raises" /\ llm_client # "raises"

\* C2: when retrieval returns at least one result and no tool or model call fails,
\* process_query returns the retrieval confidence, one evidence record per result in
\* order, the set of their source types and the three reasoning steps (not the error
\* response).
C2_SuccessResponse ==
    \A t \in ProcessQueryTasks :
        (tasks[t].pc = "done" /\ tasks[t].retrieval.total_results >= 1 /\ NoStoreOrModelFails)
        => /\ tasks[t].response.confidence_score = tasks[t].retrieval.confidence_score
           /\ tasks[t].response.supporting_evidence =
                  SupportingEvidence(tasks[t].retrieval.results)
           /\ tasks[t].response.sources_used = SourcesUsed(tasks[t].retrieval.results)
           /\ Len(tasks[t].response.reasoning_steps) = 3
           /\ tasks[t].response.answer.kind # "error"

Quiet == \A t \in DOMAIN tasks : tasks[t].pc \in {"idle", "done"}

\* C5: with process_query calls issued one at a time, every call, a failed one
\* included, has appended its user turn and then an assistant turn carrying the
\* returned answer: the stored roles alternate user, assistant, user, assistant.
C5_TurnsAlternate ==
    Quiet =>
        /\ \A id \in DOMAIN conversations :
              /\ Len(conversations[id]) % 2 = 0
              /\ \A i \in 1..Len(conversations[id]) :
                    conversations[id][i].role = IF i % 2 = 1 THEN "user" ELSE "assistant"
        /\ \A t \in ProcessQueryTasks :
              tasks[t].pc = "done" =>
                 LET buffer == conversations[tasks[t].conversation_id]
                 IN buffer[Len(buffer)].content = tasks[t].response.answer

EventTypes(t) == [i \in 1..Len(tasks[t].events) |-> tasks[t].events[i].type]
Terminal(type) == type \in {"complete", "error"}
Before(types, a, j) == \E i \in 1..(j - 1) : types[i] = a

\* C6: a stream emits a status event first, retrieval_complete before
\* reasoning_complete, reasoning_complete before complete; a terminal event
\* (complete or error) is the last event and there is at most one; a fully consumed
\* stream has exactly one.
C6_StreamEventOrder ==
    \A t \in StreamTasks :
        LET types == EventTypes(t)
        IN /\ Len(types) > 0 => types[1] = "status"
           /\ \A j \in 1..Len(types) :
                 /\ types[j] = "reasoning_complete" => Before(types, "retrieval_complete", j)
                 /\ types[j] = "complete" =>
                       Before(types, "retrieval_complete", j)
                       /\ Before(types, "reasoning_complete", j)
                 /\ Terminal(types[j]) => j = Len(types)
           /\ tasks[t].pc = "done" => Len(types) > 0 /\ Terminal(types[Len(types)])

C6_Witness ==
    \E t \in StreamTasks :
        /\ tasks[t].pc = "done"
        /\ EventTypes(t) = <<"status", "status", "retrieval_complete", "status",
                             "reasoning_complete", "status", "complete">>

\* the last direct call
Retrieved == call.op = "retrieve"
Response == call.result
InRange(s, x) == \E i \in 1..Len(s) : s[i] = x

\* what the stores hold for a tool invoked with a limit
VectorAnswer(limit) ==
    [i \in 1..Len(IndexQuery(limit)) |-> VectorResult(IndexQuery(limit)[i])]
GraphAnswer(query, limit) ==
    LET rows == GraphRows(query, limit)
    IN Prefix([i \in 1..Len(rows) |-> GraphResult(rows[i])], limit)

\* the limit of the last invocation of a tool
LastLimit(calls, tool) ==
    calls[CHOOSE i \in 1..Len(calls) :
              calls[i].tool = tool /\ \A j \in (i + 1)..Len(calls) : calls[j].tool # tool].limit

\* every result of answer is in results, or repeats the content identity of an
\* earlier result of answer that is
Kept(answer, results) ==
    \A i \in 1..Len(answer) :
        \/ InRange(results, answer[i])
        \/ \E k \in 1..(i - 1) :
              ContentKey(answer[k]) = ContentKey(answer[i]) /\ InRange(results, answer[k])

OneStoreFails ==
    \/ chroma_client = "raises" /\ neo4j_driver = "ok"
    \/ chroma_client = "ok" /\ neo4j_driver = "raises"

C4_BufferKeepsNewest ==
    max_messages = 20 =>
        \A id \in DOMAIN conversations :
            LET added == history[id]
                kept == Min(Len(added), 20)
            IN /\ Len(conversations[id]) <= 20
               /\ conversations[id] = SubSeq(added, Len(added) - kept + 1, Len(added))

C4_Witness ==
    \E id \in DOMAIN conversations :
        /\ Len(history[id]) > 20
        /\ Len(conversations[id]) = 20
        /\ conversations[id][1] # history[id][1]

ToolCall(tool, limit) == [tool |-> tool, limit |-> limit]

\* C7: adaptive retrieval first invokes the vector tool with limit max_results/3.  If
\* that pass is non-empty with a mean score strictly above 0.7 it then invokes only the
\* graph tool with limit max_results/3 and returns the first pass followed by the graph
\* results; otherwise it returns what hybrid retrieval returns at the full max_results.
C7_AdaptiveEscalation ==
    (Retrieved /\ Response.strategy_used = "adaptive")
    => LET m == call.max_results
           first == IF chroma_client = "ok" THEN VectorAnswer(m \div 3) ELSE <<>>
           graph == IF neo4j_driver = "ok" THEN GraphAnswer(Response.query, m \div 3) ELSE <<>>
           start == [chain |-> <<>>, calls |-> <<>>]
       IN /\ Response.calls[1] = ToolCall("vector", m \div 3)
          /\ IF Len(first) > 0 /\ SumSeq(Scores(first)) > 70 * Len(first)
             THEN /\ Response.calls = <<ToolCall("vector", m \div 3), ToolCall("graph", m \div 3)>>
                  /\ Response.results = first \o graph
             ELSE /\ Response.calls = <<ToolCall("vector", m \div 3), ToolCall("vector", m \div 2),
                                        ToolCall("graph", m \div 2)>>
                  /\ Response.results = _hybrid_retrieval(Response.query, m, start).results

\* three first-pass results of mean 0.85, and a graph pass after them
C7_Witness ==
    /\ Retrieved /\ Response.strategy_used = "adaptive"
    /\ chroma_client = "ok" /\ Len(VectorAnswer(call.max_results \div 3)) = 3
    /\ SumSeq(Scores(VectorAnswer(call.max_results \div 3))) = 3 * 85
    /\ Len(Response.calls) = 2
    /\ Len(Response.results) > 3

\* C8: hybrid retrieval invokes the vector tool and then the graph tool, each with limit
\* max_results/2; no two results of its output share a content identity; an identity a
\* vector result has is represented by a vector result; the output is in non-increasing
\* score order and has at most max_results elements.
C8_HybridMerge ==
    (Retrieved /\ Response.strategy_used = "hybrid")
    => LET m == call.max_results
           out == Response.results
           vector == IF chroma_client = "ok" THEN VectorAnswer(m \div 2) ELSE <<>>
       IN /\ Response.calls = <<ToolCall("vector", m \div 2), ToolCall("graph", m \div 2)>>
          /\ \A i, j \in 1..Len(out) : i # j => ContentKey(out[i]) # ContentKey(out[j])
          /\ \A i \in 1..Len(out) :
                (\E k \in 1..Len(vector) : ContentKey(vector[k]) = ContentKey(out[i]))
                => out[i].source_type = "vector"
          /\ \A i \in 1..Len(vector) :
                \E k \in 1..Len(out) : ContentKey(out[k]) = ContentKey(vector[i])
          /\ \A i \in 1..(Len(out) - 1) : out[i].score >= out[i + 1].score
          /\ Len(out) <= m

\* a graph result outscoring the vector result of the same identity, which is kept
C8_Witness ==
    /\ Retrieved /\ Response.strategy_used = "hybrid"
    /\ chroma_client = "ok" /\ neo4j_driver = "ok"
    /\ \E i \in 1..Len(vecStore), k \in 1..Len(graphStore) :
          /\ i <= call.max_results \div 2 /\ k <= call.max_results \div 2
          /\ ContentKey(vecStore[i]) = ContentKey(graphStore[k])
          /\ GraphResult(graphStore[k]).score > VectorResult(vecStore[i]).score
          /\ InRange(Response.results, VectorResult(vecStore[i]))
    /\ Len(Response.results) >= 2

\* C9: select_strategy is decided by (intent, complexity_score): below 0.3 vector-only,
\* above 0.7 adaptive, and from 0.3 to 0.7, both included, the intent's strategy.
C9_StrategyTable ==
    call.op = "select_strategy" =>
        LET c == call.query.complexity_score
            intent == call.query.intent
        IN /\ c < 180 => call.result = "vector_only"
           /\ c > 420 => call.result = "adaptive"
           /\ (c >= 180 /\ c <= 420) =>
                 /\ intent = "entity_lookup" => call.result = "vector_only"
                 /\ intent = "relationship_exploration" => call.result = "graph_only"
                 /\ intent = "filtered_search" => call.result = "logical_filter"
                 /\ intent = "general_search" => call.result = "hybrid"

C9_Witness ==
    /\ call.op = "select_strategy"
    /\ call.query.complexity_score = 180
    /\ call.query.intent = "relationship_exploration"
    /\ call.result = "graph_only"

\* C10: the confidence_score retrieve returns lies within [0,1], whatever the stores
\* return (vector distances above 1 included).
C10_ConfidenceInUnitInterval ==
    Retrieved =>
        /\ Response.confidence_score.num >= 0
        /\ Response.confidence_score.num <= Response.confidence_score.den

ToolDown(tool) ==
    CASE tool = "vector" -> chroma_client \in {"None", "raises"}
      [] tool = "graph" -> neo4j_driver \in {"None", "raises"}

\* every tool the strategy invokes is unavailable or raises; the filter tool is a
\* placeholder that finds nothing
EveryToolFails(strategy) ==
    CASE strategy = "vector_only" -> ToolDown("vector")
      [] strategy = "graph_only" -> ToolDown("graph")
      [] strategy = "logical_filter" -> TRUE
      [] strategy \in {"hybrid", "adaptive"} -> ToolDown("vector") /\ ToolDown("graph")

\* C11: when every tool the chosen strategy invokes is unavailable or raises, retrieve
\* returns a response with empty results, total_results 0 and confidence 0.0, and no
\* error step (nothing was raised to retrieve itself), for each of the five strategies.
C11_EmptyWhenToolsFail ==
    (Retrieved /\ EveryToolFails(Response.strategy_used))
    => /\ Response.results = <<>>
       /\ Response.total_results = 0
       /\ Response.confidence_score.num = 0
       /\ \A i \in 1..Len(Response.reasoning_chain) : Response.reasoning_chain[i].step # "error"

\* adaptive: the index raises, the graph store is absent, three invocations all fail
C11_Witness ==
    /\ Retrieved /\ Response.strategy_used = "adaptive"
    /\ chroma_client = "raises" /\ neo4j_driver = "None"
    /\ Len(Response.calls) = 3
    /\ Response.results = <<>> /\ Response.confidence_score = Zero

\* C12: for every strategy the results retrieve returns are in non-increasing score
\* order.
C12_ResultsRanked ==
    Retrieved =>
        \A i \in 1..(Len(Response.results) - 1) :
            Response.results[i].score >= Response.results[i + 1].score

SingleTool(strategy) ==
    CASE strategy = "vector_only" -> "vector"
      [] strategy = "graph_only" -> "graph"
      [] strategy = "logical_filter" -> "filter"

\* C13: for every strategy retrieve returns at most max_results results, whatever
\* number of records a store answers with; vector-only, graph-only and filter-only
\* invoke their one tool only.
C13_AtMostMaxResults ==
    Retrieved =>
        /\ Len(Response.results) <= call.max_results
        /\ Response.strategy_used \in {"vector_only", "graph_only", "logical_filter"}
           => Response.calls = <<ToolCall(SingleTool(Response.strategy_used), call.max_results)>>

\* the steps that close a tool invocation
OutcomeSteps ==
    {"vector_search_unavailable", "vector_search_error", "vector_results",
     "graph_search_unavailable", "graph_search_error", "graph_results", "filter_results"}

IsOutcome(record) == record.step \in OutcomeSteps
ToolRecords(chain) == SelectSeq(chain, IsOutcome)

\* the record an invocation must leave, given what its store does
ExpectedRecord(invocation, query) ==
    CASE invocation.tool = "vector" ->
            IF chroma_client = "None" THEN Step("vector_search_unavailable", NoCount)
            ELSE IF chroma_client = "raises" THEN Step("vector_search_error", NoCount)
            ELSE Step("vector_results", Len(IndexQuery(invocation.limit)))
      [] invocation.tool = "graph" ->
            IF neo4j_driver = "None" THEN Step("graph_search_unavailable", NoCount)
            ELSE IF neo4j_driver = "raises" THEN Step("graph_search_error", NoCount)
            ELSE Step("graph_results", Len(GraphRows(query, invocation.limit)))
      [] invocation.tool = "filter" -> Step("filter_results", 0)

\* C14: reasoning_chain starts with the query_analysis record; the records that close
\* a tool invocation are, in invocation order, one per invocation attempted: the
\* unavailable or error record of a failed attempt, the result count (the number of
\* records the tool found) of a successful one.
C14_ChainRecordsEveryTool ==
    Retrieved =>
        LET chain == Response.reasoning_chain
            records == ToolRecords(chain)
        IN /\ Len(chain) > 0 /\ chain[1].step = "query_analysis"
           /\ \A i \in 2..Len(chain) : chain[i].step # "query_analysis"
           /\ Len(records) = Len(Response.calls)
           /\ \A i \in 1..Len(records) :
                 records[i] = ExpectedRecord(Response.calls[i], Response.query)

\* adaptive falling back to hybrid: the index answers twice, the graph store raises
C14_Witness ==
    /\ Retrieved /\ Response.strategy_used = "adaptive"
    /\ chroma_client = "ok" /\ vecStore # <<>> /\ neo4j_driver = "raises"
    /\ Len(Response.calls) = 3
    /\ ToolRecords(Response.reasoning_chain)[3] = Step("graph_search_error", NoCount)

ReasoningRan(t) ==
    \/ tasks[t].kind = "process_query" /\ tasks[t].pc \in {"answer", "done"}
    \/ tasks[t].kind = "stream_response" /\ tasks[t].pc \in {"s5", "s6", "s_end", "done"}

StepTypes(steps) == [i \in 1..Len(steps) |-> steps[i].step_type]

\* C15: for every result list retrieve can return, empty or not, the reasoning chain
\* process_query and stream_response build has exactly the three steps query_analysis,
\* information_retrieval, evidence_synthesis, in that order.
C15_ThreeReasoningSteps ==
    \A t \in DOMAIN tasks :
        ReasoningRan(t) =>
            StepTypes(tasks[t].reasoning_steps) =
                <<"query_analysis", "information_retrieval", "evidence_synthesis">>

LlmMissingOrFailing == llm_client \in {"None", "raises"}

\* the call got as far as answer generation
AnswerRan(t) ==
    /\ Len(tasks[t].reasoning_steps) = 3
    /\ \/ tasks[t].kind = "process_query" /\ tasks[t].pc = "done"
       \/ tasks[t].kind = "stream_response" /\ tasks[t].pc \in {"s_end", "done"}

\* C16: with no language-model client, or one whose call raises, _generate_answer
\* returns the extractive fallback text (the top three contents, the count and the
\* average score); a process_query that reached answer generation returns it, not
\* the error response, and a stream that reached it ends with complete, not error.
C16_FallbackAnswer ==
    LlmMissingOrFailing =>
        /\ call.op = "_generate_answer" =>
              /\ call.result.kind = "fallback"
              /\ call.result.text = Contents(Prefix(call.results, 3))
              /\ call.result.n = Len(call.results)
              /\ call.result.sum = SumSeq(Scores(call.results))
        /\ \A t \in DOMAIN tasks :
              AnswerRan(t) =>
                  /\ tasks[t].raised = ""
                  /\ tasks[t].response.answer.kind = "fallback"
                  /\ tasks[t].kind = "stream_response" =>
                        EventTypes(t)[Len(EventTypes(t))] = "complete"

\* the client raises and a process_query returns the fallback answer
C16_Witness ==
    /\ llm_client = "raises"
    /\ \E t \in ProcessQueryTasks :
          /\ tasks[t].pc = "done" /\ tasks[t].raised = ""
          /\ tasks[t].outcome = "returned"
          /\ tasks[t].response.answer.kind = "fallback"

\* C17: get_context(id) returns the last min(6, n) messages of a known conversation
\* of n messages, in insertion order; for an unknown id it returns the empty sequence
\* and the memory has no entry for the id afterwards.
C17_ContextWindow ==
    call.op = "get_context" =>
        LET id == call.conversation_id
        IN IF call.known
           THEN /\ id \in DOMAIN conversations
                /\ LET n == Len(conversations[id])
                       k == Min(6, n)
                   IN /\ Len(call.result) = k
                      /\ \A i \in 1..k : call.result[i] = conversations[id][n - k + i]
                      /\ \A i \in 1..k : call.result[i] = history[id][Len(history[id]) - k + i]
           ELSE /\ call.result = <<>>
                /\ id \notin DOMAIN conversations
                /\ id \notin DOMAIN conversation_metadata

\* eight messages held, the last six returned, while the other id is unknown
C17_Witness ==
    /\ call.op = "get_context" /\ call.known
    /\ Len(conversations[call.conversation_id]) = 8
    /\ Len(call.result) = 6
    /\ call.result[1] = conversations[call.conversation_id][3]
    /\ \E id \in ConvIds : id \notin DOMAIN conversations

AStoreHangs == chroma_client = "hangs" \/ neo4j_driver = "hangs"

\* C18: a retrieve call made while a store never answers still returns eventually.
C18_RetrieveReturns ==
    \A t \in 1..MaxTasks :
        (tasks[t].kind = "retrieve" /\ tasks[t].pc = "await" /\ AStoreHangs)
        ~> (tasks[t].kind = "retrieve" /\ tasks[t].pc = "done")

Analyzed == call.op = "analyze_query"

\* the counts the four terms are made of, taken from the text
LengthOf(text) == Len(text)
EntityCount(text) ==
    Cardinality({i \in 1..Len(Split(text)) : IsEntityWord(Split(text)[i])})
ConnectiveCount(text) == Cardinality({op \in logical_ops : Contains(Lower(text), op)})
InterrogativeCount(text) == Cardinality({qw \in question_words : Contains(Lower(text), qw)})

Capped(value, cap) == IF value > cap THEN cap ELSE value

\* C19: for every query text complexity_score lies within [0,1] and is the sum of
\* four non-negative terms capped at 0.3 (length/200), 0.3 (entities/10),
\* 0.2 (connectives/5) and 0.2 (interrogatives/3); in 600ths.
C19_ComplexityInUnitInterval ==
    Analyzed =>
        LET text == call.query_text
            c == call.result.complexity_score
        IN /\ c >= 0 /\ c <= 600
           /\ c = Capped(3 * LengthOf(text), 180) + Capped(60 * EntityCount(text), 180)
                  + Capped(120 * ConnectiveCount(text), 120)
                  + Capped(200 * InterrogativeCount(text), 120)

\* "Who Who Bob Bob": four entities (capped at 0.3) and one interrogative
C19_Witness ==
    /\ Analyzed
    /\ Len(call.result.entities_mentioned) = 4
    /\ InterrogativeCount(call.query_text) = 1
    /\ call.result.complexity_score = 45 + 180 + 120

\* C20: the hybrid merge D is idempotent: with D(X) the merge of a result list X,
\* D(D(X)) = D(X) and D(D(X) ++ D(X)) = D(X).
C20_MergeIdempotent ==
    call.op = "hybrid_merge" =>
        /\ HybridMerge(call.result) = call.result
        /\ HybridMerge(call.result \o call.result) = call.result

\* a merge that dropped a repeated identity and moved a graph result ahead of a
\* vector result
C20_Witness ==
    /\ call.op = "hybrid_merge"
    /\ Len(call.result) < Len(call.all_results)
    /\ Len(call.result) = 2
    /\ call.result # Dedup(call.all_results, {})
    /\ call.result[1].source_type = "graph" /\ call.result[2].source_type = "vector"

Planned(text) == call.op = "analyze_and_select" /\ call.query_text = text

\* C21: for "Who works for Apple Inc.?" analyze_query yields a complexity_score
\* below 0.3 and select_strategy yields vector-only.
C21_AppleScenario ==
    Planned(Q_apple) =>
        /\ call.query.complexity_score < 180
        /\ call.strategy = "vector_only"

\* C22: for "How are Apple Inc. and Steve Jobs related, and what companies are they
\* connected to?" analyze_query yields a complexity_score above 0.3, the intent
\* relationship_exploration and two entities, and select_strategy yields graph-only,
\* or adaptive when the complexity exceeds 0.7.
C22_RelatedScenario ==
    Planned(Q_related) =>
        /\ call.query.complexity_score > 180
        /\ call.query.intent = "relationship_exploration"
        /\ Len(call.query.entities_mentioned) = 2
        /\ call.strategy = IF call.query.complexity_score > 420 THEN "adaptive"
                           ELSE "graph_only"

EndedWithComplete(t) ==
    /\ tasks[t].kind = "stream_response"
    /\ Len(tasks[t].events) > 0
    /\ tasks[t].events[Len(tasks[t].events)].type = "complete"

\* C23: a stream_response turn that ends with the complete event leaves, at the end of
\* its conversation's memory, the user turn carrying the query and then the assistant
\* turn carrying the streamed answer.
C23_StreamUpdatesMemory ==
    \A t \in DOMAIN tasks :
        EndedWithComplete(t) =>
            /\ tasks[t].conversation_id \in DOMAIN conversations
            /\ LET buffer == conversations[tasks[t].conversation_id]
                   n == Len(buffer)
               IN /\ n >= 2
                  /\ buffer[n - 1].role = "user"
                  /\ buffer[n - 1].content = QueryContent(tasks[t].query)
                  /\ buffer[n].role = "assistant"
                  /\ buffer[n].content = tasks[t].response.answer

\* the call has its retrieval response
HasRetrieval(t) ==
    \/ tasks[t].kind = "process_query" /\ tasks[t].pc \in {"reason", "answer", "done"}
    \/ tasks[t].kind = "stream_response"
       /\ tasks[t].pc \in {"s3", "s4", "s5", "s6", "s_end", "done"}

\* C24: the strategy process_query and stream_response retrieve with is the one
\* select_strategy returns for the query's analysis.
C24_SelectedStrategyUsed ==
    \A t \in DOMAIN tasks :
        HasRetrieval(t) =>
            tasks[t].retrieval.strategy_used = select_strategy(analyze_query(tasks[t].query))

BufferOf(id) == IF id \in DOMAIN conversations THEN conversations[id] ELSE <<>>

IsAppend(old, new) == Len(new) = Len(old) + 1 /\ SubSeq(new, 1, Len(old)) = old

\* the messages of a buffer are those of calls on its id, in call order: a call's
\* user turn, then its assistant turn if it appended one
OwnMessagesInOrder(id) ==
    LET buffer == conversations[id]
    IN /\ \A i \in 1..Len(buffer) : buffer[i].id[1] = id
       /\ \A i \in 1..(Len(buffer) - 1) : buffer[i].id[2] < buffer[i + 1].id[2]
       /\ \A i \in 1..Len(buffer) :
             buffer[i].role = "assistant" =>
                 /\ i > 1 /\ buffer[i - 1].role = "user"
                 /\ buffer[i - 1].id[2] = buffer[i].id[2] - 1

\* the turns a call has appended are in its conversation's buffer
OwnTurnsHeld(t) ==
    LET buffer == BufferOf(tasks[t].conversation_id)
        id == tasks[t].response_id
    IN /\ \E i \in 1..Len(buffer) :
             /\ buffer[i].id = <<id[1], id[2] - 1>> /\ buffer[i].role = "user"
             /\ buffer[i].content = QueryContent(tasks[t].query)
       /\ (tasks[t].pc = "done" /\ tasks[t].raised = "") =>
             \E i \in 1..Len(buffer) :
                 /\ buffer[i].id = id /\ buffer[i].role = "assistant"
                 /\ buffer[i].content = tasks[t].response.answer

\* C25: with concurrent process_query calls on distinct conversation ids, under every
\* interleaving each buffer holds only the messages of the calls on its id, in call
\* order, and a step changes a buffer only by one append made by a call on that id.
C25_ConversationsIsolated ==
    /\ [](/\ \A id \in DOMAIN conversations : OwnMessagesInOrder(id)
          /\ \A t \in ProcessQueryTasks : OwnTurnsHeld(t))
    /\ [][\A id \in ConvIds :
              BufferOf(id)' # BufferOf(id) =>
                  /\ IsAppend(BufferOf(id), BufferOf(id)')
                  /\ \E t \in DOMAIN tasks :
                        tasks'[t] # tasks[t] /\ tasks'[t].conversation_id = id]_vars

\* the one call on c2 has returned its answer while the one call on c1, started
\* before it, is still waiting for its retrieval
C25_Witness ==
    /\ clock["c1"] = 2 /\ clock["c2"] = 2
    /\ tasks[1].pc = "retrieve" /\ tasks[1].conversation_id = "c1"
    /\ tasks[2].pc = "done" /\ tasks[2].conversation_id = "c2" /\ tasks[2].raised = ""
    /\ Len(conversations["c1"]) = 1 /\ Len(conversations["c2"]) = 2

\* the call waits at an await that suspends it
Suspended(t) ==
    /\ tasks[t].kind = "process_query"
    /\ \/ tasks[t].pc = "retrieve" /\ RetrieveSuspends
       \/ tasks[t].pc = "answer" /\ AnswerSuspends

InFlight(t) == tasks[t].kind = "process_query" /\ tasks[t].pc \in {"retrieve", "reason", "answer"}

UserTurnOf(t) ==
    ConversationMessage(<<tasks[t].response_id[1], tasks[t].response_id[2] - 1>>, "user",
                        QueryContent(tasks[t].query))

Roles(buffer) == [i \in 1..Len(buffer) |-> buffer[i].role]
Serials(buffer) == [i \in 1..Len(buffer) |-> buffer[i].id[2]]

\* C26: calls on one conversation id are not serialized: while a call is suspended at
\* an await (the event loop free) a second call on the same id can start, and while two calls on one id are
\* in flight the buffer holds the user turns of both and the assistant turn of neither
\* (so the memory can come to hold user 1, user 2, assistant 1, assistant 2).
C26_NotSerialized ==
    /\ \A t \in DOMAIN tasks :
          (/\ Suspended(t)
           /\ \A v \in DOMAIN tasks : ~Running(tasks[v])
           /\ \E u \in DOMAIN tasks : tasks[u].pc = "idle"
           /\ clock[tasks[t].conversation_id] + 2 <= 2 * MaxCalls)
          => \E u \in DOMAIN tasks : ENABLED PQ_Start(u, Q_who, tasks[t].conversation_id)
    /\ \A t, u \in DOMAIN tasks :
          (t # u /\ InFlight(t) /\ InFlight(u)
           /\ tasks[t].conversation_id = tasks[u].conversation_id)
          => LET buffer == BufferOf(tasks[t].conversation_id)
             IN /\ InRange(buffer, UserTurnOf(t)) /\ InRange(buffer, UserTurnOf(u))
                /\ \A i \in 1..Len(buffer) :
                      buffer[i].id # tasks[t].response_id /\ buffer[i].id # tasks[u].response_id

\* user 1, user 2, assistant 1, assistant 2
C26_Witness ==
    /\ "c1" \in DOMAIN conversations
    /\ Roles(conversations["c1"]) = <<"user", "user", "assistant", "assistant">>
    /\ Serials(conversations["c1"]) = <<1, 3, 2, 4>>

\* C27: successive /reasoning/query requests with one conversation_id share context:
\* the context of a later request holds the turns the earlier requests on that id
\* appended, and /reasoning/conversation/{id} returns those turns.
C27_RequestsShareContext ==
    /\ \A t \in ProcessQueryTasks :
          \A i \in 1..Len(Served[tasks[t].conversation_id]) :
              InRange(tasks[t].context, Served[tasks[t].conversation_id][i])
    /\ call.op = "conversation_history" =>
          call.messages = Served[call.conversation_id]

\* C28: in every state of the memory reached by add_message and clear_conversation
\* calls, conversations and conversation_metadata have the same keys, and each
\* conversation's message_count is the number of add_message calls made on it since
\* it was created: message_count minus the buffer length is the number of messages
\* evicted.
C28_CountsMatch ==
    /\ DOMAIN conversations = DOMAIN conversation_metadata
    /\ \A id \in DOMAIN conversations :
          LET added == Len(history[id])
              evicted == IF added > max_messages THEN added - max_messages ELSE 0
          IN /\ conversation_metadata[id].message_count = added
             /\ conversation_metadata[id].message_count - Len(conversations[id]) = evicted

\* 21 messages added to c1, one evicted, after c2 was created and cleared
C28_Witness ==
    /\ "c1" \in DOMAIN conversations
    /\ conversation_metadata["c1"].message_count = 21
    /\ Len(conversations["c1"]) = 20
    /\ "c2" \notin DOMAIN conversations /\ clock["c2"] > 0

MemoryAfter == [conversations |-> conversations', conversation_metadata |-> conversation_metadata']

SameEntry(id) ==
    /\ (id \in DOMAIN conversations) = (id \in DOMAIN conversations')
    /\ (id \in DOMAIN conversation_metadata) = (id \in DOMAIN conversation_metadata')
    /\ id \in DOMAIN conversations => conversations'[id] = conversations[id]
    /\ id \in DOMAIN conversation_metadata =>
          conversation_metadata'[id] = conversation_metadata[id]

\* C29: clear_conversation(id) on a known id removes its buffer and its metadata and
\* returns true; on an unknown id it returns false and changes nothing; it leaves every
\* other conversation as it was; after it get_context(id) is empty, and an add_message
\* on the id that follows starts a new buffer holding that message, message_count 1.
C29_ClearConversation ==
    [][/\ call'.op = "clear_conversation" =>
            LET id == call'.conversation_id
            IN /\ call'.result = (id \in DOMAIN conversations)
               /\ id \notin DOMAIN conversations' /\ id \notin DOMAIN conversation_metadata'
               /\ \A other \in ConvIds \ {id} : SameEntry(other)
               /\ id \notin DOMAIN conversations =>
                     conversations' = conversations
                     /\ conversation_metadata' = conversation_metadata
               /\ get_context(MemoryAfter, id) = <<>>
       /\ (call.op = "clear_conversation" /\ call'.op = "add_message"
           /\ call'.conversation_id = call.conversation_id) =>
            LET id == call.conversation_id
            IN /\ Len(conversations'[id]) = 1
               /\ conversations'[id][1].id = <<id, clock'[id]>>
               /\ conversation_metadata'[id].message_count = 1]_vars

\* c1 held several messages, was cleared, and the add_message that followed started
\* it anew, while c2 keeps its messages
C29_Witness ==
    /\ call.op = "add_message" /\ call.conversation_id = "c1"
    /\ clock["c1"] > 2
    /\ conversation_metadata["c1"].message_count = 1 /\ Len(conversations["c1"]) = 1
    /\ "c2" \in DOMAIN conversations /\ Len(conversations["c2"]) >= 2

\* the call has started and not been collected
Started(t) ==
    tasks[t].kind = "process_query" /\ tasks[t].pc \in {"retrieve", "reason", "answer", "done"}

LastOf(messages, k) == SubSeq(messages, Len(messages) - Min(k, Len(messages)) + 1, Len(messages))

\* C30: with a memory of capacity at least 1, the context a process_query call hands
\* to retrieval and reasoning ends with that call's own user turn and holds at most 6
\* messages, whatever other calls on the same id do meanwhile: it is the last 6
\* messages of the buffer as the call's start left it, and it does not change while
\* the call runs.
C30_ContextSnapshot ==
    /\ [](\A t \in DOMAIN tasks :
             (Started(t) /\ max_messages >= 1) =>
                 /\ Len(tasks[t].context) >= 1 /\ Len(tasks[t].context) <= 6
                 /\ tasks[t].context[Len(tasks[t].context)] = UserTurnOf(t))
    /\ [][\A t \in DOMAIN tasks :
              /\ (tasks[t].pc = "idle" /\ Started(t)') =>
                    tasks'[t].context = LastOf(conversations'[tasks'[t].conversation_id], 6)
              /\ (Started(t) /\ Started(t)') => tasks'[t].context = tasks[t].context]_vars

\* two calls on c1 in flight: task 1 holds six messages ending with its own user turn,
\* cut from a longer buffer to which the other call has appended since
C30_Witness ==
    /\ InFlight(1) /\ InFlight(2)
    /\ max_messages = DefaultMaxMessages
    /\ Len(tasks[1].context) = 6
    /\ tasks[1].context[6] = UserTurnOf(1)
    /\ Len(conversations["c1"]) >= 8
    /\ conversations["c1"][Len(conversations["c1"])] # UserTurnOf(1)
    /\ tasks[1].context[1] # conversations["c1"][1]

====
